---- MODULE Spec2Model ----
(***************************************************************************)
(* Round lifecycle controller and rate-limiting guard of NeighbourGuessr   *)
(* (the rate-limited App component, src/unnamed/part_000 lines 1-613).     *)
(*                                                                         *)
(* Time is kept by clocks, in milliseconds: Date.now() itself is not a     *)
(* variable.  sinceLastCall stands for Date.now() - lastApiCallRef.current *)
(* and saturates just above RATE_LIMIT_WINDOW (the code only compares it   *)
(* with that constant); every timer is the number of milliseconds left     *)
(* until its callback runs.  Coordinates are hundredths of a degree,       *)
(* distances are 1/UnitsPerMetre metres.  A React event handler, the state *)
(* updates it batches and the effects of the render that follows are one   *)
(* action.                                                                 *)
(***************************************************************************)
EXTENDS Integers, Sequences, FiniteSets, TLC

\* ---------------------------------------------------------------- bounds
MaxScore == 5000
MaxInFlight == 1
RandDenom == 1
UnitsPerMetre == 100
MaxFailures == 6
MaxDistance == 6000
SampleDenom == 4
QuadrantReach == 2

\* ------------------------------------------------------ program constants
RATE_LIMIT_WINDOW == 60000
MAX_API_CALLS == 10
RATE_LIMIT_DURATION == 300000
VIEW_DURATION == 10
COUNTDOWN_INTERVAL == 1000
ANSWER_DELAY == 5000
MAX_POINTS == 5000
SUCCESS_RADIUS == 3000

CALGARY_BOUNDS == [north |-> 5120, south |-> 5090, west |-> -11430, east |-> -11380]

defaultCenter ==
    [lat |-> (CALGARY_BOUNDS.north + CALGARY_BOUNDS.south) \div 2,
     lng |-> (CALGARY_BOUNDS.east + CALGARY_BOUNDS.west) \div 2]

NoPos == [lat |-> 0, lng |-> 0]
NoLatLng == [lat |-> 1, lng |-> 1]
Off == -1
NoTimeout == [left |-> Off, rl |-> FALSE]
RateLimitText == "Rate limit reached. Please wait a few minutes before trying again."
StreetViewErrorText == "Unable to load street view. Please try again."

Min(a, b) == IF a < b THEN a ELSE b
Max(a, b) == IF a > b THEN a ELSE b

\* results of google.maps.geometry.spherical.computeDistanceBetween (an
\* external library): 0 m, 3000 m, 3000.01 m and 6000 m
Distances ==
    {0, SUCCESS_RADIUS * UnitsPerMetre, SUCCESS_RADIUS * UnitsPerMetre + 1,
     6000 * UnitsPerMetre}

\* the distances a scored guess is tried with: whole metres around every
\* multiple of 500 m up to MaxDistance, each with the fractions 0, the
\* smallest and the largest one
PointsDistances ==
    {m * UnitsPerMetre + f :
        m \in {n \in 0 .. MaxDistance : n % 500 \in {0, 1, 499}},
        f \in {0, 1, UnitsPerMetre - 1}}

Floor(d) == d \div UnitsPerMetre

Points_Rounded(d) == Max(0, MAX_POINTS - (2 * d + UnitsPerMetre) \div (2 * UnitsPerMetre))

Points_Unclamped(d) == MAX_POINTS - Floor(d)
Points_NoFloor(d) == Max(0, MAX_POINTS - (d + UnitsPerMetre - 1) \div UnitsPerMetre)
\* const points = Math.max(0, 5000 - Math.floor(calculatedDistance))
Points(d) == Max(0, MAX_POINTS - Floor(d))

IsCongrats_Strict(d) == d < SUCCESS_RADIUS * UnitsPerMetre
\* setShowCongrats(calculatedDistance <= 3000)
IsCongrats(d) == d <= SUCCESS_RADIUS * UnitsPerMetre

\* setShowFailed(calculatedDistance > 3000)
IsFailed(d) == d > SUCCESS_RADIUS * UnitsPerMetre

getQuadrant_Inclusive(lat, lng) ==
    LET centerLat == (CALGARY_BOUNDS.north + CALGARY_BOUNDS.south) \div 2
        centerLng == (CALGARY_BOUNDS.east + CALGARY_BOUNDS.west) \div 2
    IN  IF lat >= centerLat /\ lng >= centerLng THEN "Northeast"
        ELSE IF lat >= centerLat /\ lng < centerLng THEN "Northwest"
        ELSE IF lat < centerLat /\ lng >= centerLng THEN "Southeast"
        ELSE "Southwest"

getQuadrant(lat, lng) ==
    LET centerLat == (CALGARY_BOUNDS.north + CALGARY_BOUNDS.south) \div 2
        centerLng == (CALGARY_BOUNDS.east + CALGARY_BOUNDS.west) \div 2
    IN  IF lat > centerLat /\ lng > centerLng THEN "Northeast"
        ELSE IF lat > centerLat /\ lng < centerLng THEN "Northwest"
        ELSE IF lat < centerLat /\ lng > centerLng THEN "Southeast"
        ELSE "Southwest"

\* what geocoder.geocode can answer: an address naming a quadrant, an
\* address that names none, no result, or a rejected promise
GeoAnswers == {"quadrantAddress", "plainAddress", "noResult", "error"}
AddressOf(answer) ==
    IF answer = "quadrantAddress" THEN "123 4 Ave SW, Calgary, AB" ELSE "Unnamed Road, Calgary, AB"

\* ------------------------------------------------------------------ state
VARIABLES
    position, guessPosition, score, gameStarted, isLoaded, error, countdown,
    showStreetView, roundComplete, mapVisible, showAnswer, showCongrats,
    showFailed, distance, showLine, linePath, showHint, hintText, hintUsed,
    isRateLimited, rateLimitMessage,
    apiCallCount,           \* apiCallCountRef.current
    sinceLastCall,          \* Date.now() - lastApiCallRef.current, saturated
    countdownTimer,         \* ms until the countdown interval ticks, or Off
    answerTimeout,          \* [left, rl]: ms left until the auto-advance (or
                            \* Off) and the isRateLimited value closed over by
                            \* the startNewRound it calls
    rateLimitResetTimeout,  \* ms until the unlock callback runs, or Off
    panoInFlight,           \* getPanorama calls not yet answered: [rl, cur],
                            \* rl the isRateLimited value closed over by the
                            \* callback; cur (history) whether the lookup was
                            \* issued in the round that is still the current one
    geoInFlight,            \* geocode calls not yet answered: [pos, cur]
    mounted,
    unmounted,              \* the cleanup of the mount effect has run
    ev,                     \* history: the operation of the last step and what
                            \* its rate-limit check returned to its call site
    win,                    \* history: the current counting window
    lockAge,                \* history: ms since isRateLimited became true
    pendingExpiry,          \* history: a lockout has lasted RATE_LIMIT_DURATION
                            \* and no call site has checked the limiter since
    slide,                  \* history: [age, allowed]: ms since the check that
                            \* opened the interval being watched and how many
                            \* checks returned false (allowed) in the
                            \* RATE_LIMIT_WINDOW ms from it on
    randomDenom,            \* the resolution of Math.random in this run: its
                            \* results are the multiples of 1 / randomDenom
    truthHist               \* history: whether lookups are followed per round
                            \* (tracked), whether a panorama lookup for the
                            \* current truth has answered "not found" (failed)
                            \* whether the lookup that answered last had been
                            \* issued in the round it answered in (last), and
                            \* how many panorama lookups in a row have answered
                            \* "not found" for the truth of their round (fails,
                            \* counted up to MaxFailures, Off when not counted)

roundVars ==
    <<position, guessPosition, gameStarted, countdown, showStreetView,
      roundComplete, mapVisible, showAnswer, showCongrats, showFailed,
      distance, showLine, linePath, showHint, hintText, hintUsed>>
timerVars == <<countdownTimer, answerTimeout>>
limiterVars ==
    <<isRateLimited, rateLimitMessage, apiCallCount, sinceLastCall,
      rateLimitResetTimeout>>
historyVars == <<win, lockAge, slide>>
vars ==
    <<roundVars, timerVars, limiterVars, historyVars, score, isLoaded, error,
      panoInFlight, geoInFlight, mounted, unmounted, ev, pendingExpiry,
      randomDenom, truthHist>>

\* ---------------------------------------------------------------- sampler
\* Math.random() is k / randomDenom for k in RandomValues
RandomValues == 0 .. (randomDenom - 1)

\* the two Math.random() results of one generateRandomLocation call
RandomDraws == {<<k, k>> : k \in RandomValues}

generateRandomLocation_NoSpan(k1, k2) ==
    [lat |-> CALGARY_BOUNDS.south
               + (k1 * CALGARY_BOUNDS.north) \div randomDenom,
     lng |-> CALGARY_BOUNDS.west
               + (k2 * CALGARY_BOUNDS.east) \div randomDenom]

generateRandomLocation(k1, k2) ==
    [lat |-> CALGARY_BOUNDS.south
               + (k1 * (CALGARY_BOUNDS.north - CALGARY_BOUNDS.south)) \div randomDenom,
     lng |-> CALGARY_BOUNDS.west
               + (k2 * (CALGARY_BOUNDS.east - CALGARY_BOUNDS.west)) \div randomDenom]

\* coordinates a map click can carry
GuessPoints == {defaultCenter, generateRandomLocation(0, 0)}

\* ------------------------------------------------------------ map surface
\* what the render hands to the map when the truth is truth:
\* center={guessPosition || position || defaultCenter}, the answer Marker
\* ({showAnswer && position && ...}) and the Polyline
MapOutputs(truth) ==
    [center |-> IF guessPosition # NoPos THEN guessPosition
                ELSE IF truth # NoPos THEN truth
                ELSE defaultCenter,
     answerMarker |-> IF showAnswer /\ truth # NoPos THEN <<truth>> ELSE <<>>,
     line |-> IF showLine /\ Len(linePath) = 2 /\ ~showStreetView /\ roundComplete
              THEN linePath ELSE <<>>]

\* ------------------------------------------------------------------ phases
Viewing == gameStarted /\ showStreetView /\ ~roundComplete
Guessing == gameStarted /\ ~showStreetView /\ ~roundComplete
Scored == roundComplete

Saturate(t) == Min(t, RATE_LIMIT_WINDOW + 1)
FreshWindow == [age |-> RATE_LIMIT_WINDOW + 1, calls |-> 0, fresh |-> TRUE]
NoWindow == [age |-> Off, calls |-> 0, fresh |-> FALSE]
FreshSlide == [age |-> RATE_LIMIT_WINDOW + 1, allowed |-> 0]
NoSlide == [age |-> Off, allowed |-> 0]
NoTruthHist == [tracked |-> FALSE, failed |-> FALSE, last |-> FALSE, fails |-> Off]
FreshTruthHist == [tracked |-> TRUE, failed |-> FALSE, last |-> FALSE, fails |-> Off]
CountedTruthHist == [tracked |-> TRUE, failed |-> FALSE, last |-> FALSE, fails |-> 0]

\* the component after its first render, before its effects have run
InitProgram ==
    /\ position = NoPos
    /\ guessPosition = NoPos
    /\ score = 0
    /\ gameStarted = FALSE
    /\ isLoaded = FALSE
    /\ error = ""
    /\ countdown = VIEW_DURATION
    /\ showStreetView = TRUE
    /\ roundComplete = FALSE
    /\ mapVisible = FALSE
    /\ showAnswer = FALSE
    /\ showCongrats = FALSE
    /\ showFailed = FALSE
    /\ distance = 0
    /\ showLine = FALSE
    /\ linePath = <<>>
    /\ showHint = FALSE
    /\ hintText = <<>>
    /\ hintUsed = FALSE
    /\ isRateLimited = FALSE
    /\ rateLimitMessage = ""
    /\ apiCallCount = 0
    /\ sinceLastCall = RATE_LIMIT_WINDOW + 1
    /\ countdownTimer = Off
    /\ answerTimeout = NoTimeout
    /\ rateLimitResetTimeout = Off
    /\ panoInFlight = {}
    /\ geoInFlight = {}
    /\ mounted = FALSE
    /\ unmounted = FALSE
    /\ ev = [op |-> "Init", check |-> "none"]
    /\ lockAge = Off
    /\ pendingExpiry = FALSE

Init ==
    InitProgram /\ win = NoWindow /\ truthHist = NoTruthHist /\ randomDenom = RandDenom
        /\ slide = NoSlide

\* the same program with the history of the counting window followed
InitWindow ==
    InitProgram /\ win = FreshWindow /\ truthHist = NoTruthHist /\ randomDenom = RandDenom
        /\ slide = NoSlide

\* the same program with the lookups followed round by round
InitRounds ==
    InitProgram /\ win = NoWindow /\ truthHist = FreshTruthHist /\ randomDenom = RandDenom
        /\ slide = NoSlide

\* -------------------------------------------------------------- rate limit
CountAfterWindowCheck_NoReset == apiCallCount
\* apiCallCountRef.current after "Reset count if window has passed"
CountAfterWindowCheck ==
    IF sinceLastCall > RATE_LIMIT_WINDOW THEN 0 ELSE apiCallCount

CheckLimited_Above == CountAfterWindowCheck > MAX_API_CALLS
\* if (apiCallCountRef.current >= MAX_API_CALLS): checkRateLimit returns true
CheckLimited == CountAfterWindowCheck >= MAX_API_CALLS

\* a call site returned at "if (isRateLimited) return" without calling
\* checkRateLimit
SiteBlocked(op) ==
    /\ UNCHANGED limiterVars
    /\ UNCHANGED historyVars
    /\ pendingExpiry' = FALSE
    /\ ev' = [op |-> op, check |-> "Blocked"]

\* checkRateLimit, the branch that returns true
CheckRateLimitLimited(op) ==
    /\ apiCallCount' = CountAfterWindowCheck
    /\ UNCHANGED sinceLastCall
    /\ isRateLimited' = TRUE
    /\ rateLimitMessage' = RateLimitText
    /\ rateLimitResetTimeout' = RATE_LIMIT_DURATION
    /\ win' = IF win = NoWindow THEN win
              ELSE [win EXCEPT !.calls = Min(@ + 1, MAX_API_CALLS + 2)]
    /\ lockAge' = IF isRateLimited THEN lockAge ELSE 0
    /\ UNCHANGED slide
    /\ pendingExpiry' = FALSE
    /\ ev' = [op |-> op, check |-> "Limited"]

\* checkRateLimit, the branch that returns false
CheckRateLimitAllowed(op) ==
    /\ apiCallCount' = CountAfterWindowCheck + 1
    /\ sinceLastCall' = 0
    /\ UNCHANGED <<isRateLimited, rateLimitMessage, rateLimitResetTimeout>>
    /\ win' = IF win = NoWindow THEN win
              ELSE IF CountAfterWindowCheck = 0
                THEN [age |-> 0, calls |-> 1, fresh |-> ~isRateLimited]
                ELSE [win EXCEPT !.calls = Min(@ + 1, MAX_API_CALLS + 2)]
    /\ UNCHANGED lockAge
    /\ slide' = IF slide = NoSlide THEN slide
                ELSE IF slide.age >= RATE_LIMIT_WINDOW
                THEN [age |-> 0, allowed |-> 1]
                ELSE [slide EXCEPT !.allowed = Min(@ + 1, MAX_API_CALLS + 1)]
    /\ pendingExpiry' = FALSE
    /\ ev' = [op |-> op, check |-> "Allowed"]

\* ------------------------------------------------------- external lookups
\* a lookup beyond MaxInFlight is one the service never answers
Issue(inflight, lookup) ==
    IF Cardinality(inflight) < MaxInFlight THEN inflight \cup {lookup} ELSE inflight

\* useEffect(..., [position, isLoaded, startNewRound]): runs after a render
\* in which a dependency changed; startNewRound changes with isRateLimited
PanoEffect(inflight, roundStarted) ==
    IF /\ position' # NoPos
       /\ isLoaded'
       /\ (roundStarted \/ isLoaded' # isLoaded \/ isRateLimited' # isRateLimited)
    THEN Issue(inflight, [rl |-> isRateLimited', cur |-> truthHist.tracked])
    ELSE inflight

\* the lookups in flight once a new round has begun: none of them was issued
\* in the current round
Outlived(inflight) == {[l EXCEPT !.cur = FALSE] : l \in inflight}

\* history of the current truth after a round start attempt; reported: a
\* lookup for the current truth has just answered "not found"
TruthAfter(reported) ==
    IF ev'.check = "Allowed"
    THEN [truthHist EXCEPT !.failed = FALSE]
    ELSE [truthHist EXCEPT !.failed = @ \/ reported]

TimerDue ==
    \/ countdownTimer = 0
    \/ answerTimeout.left = 0
    \/ rateLimitResetTimeout = 0

\* ------------------------------------------------------------ round start
BeginRound_KeepsCountdown(k1, k2) ==
    /\ showLine' = FALSE
    /\ linePath' = <<>>
    /\ position' = generateRandomLocation(k1, k2)
    /\ guessPosition' = NoPos
    /\ gameStarted' = TRUE
    /\ error' = ""
    /\ UNCHANGED countdown
    /\ showStreetView' = TRUE
    /\ mapVisible' = FALSE
    /\ roundComplete' = FALSE
    /\ showAnswer' = FALSE
    /\ showCongrats' = FALSE
    /\ showFailed' = FALSE
    /\ distance' = 0
    /\ showHint' = FALSE
    /\ hintText' = <<>>
    /\ hintUsed' = FALSE
    /\ countdownTimer' = COUNTDOWN_INTERVAL
    /\ answerTimeout' = NoTimeout
BeginRound_KeepsAnswerTimeout(k1, k2) ==
    /\ showLine' = FALSE
    /\ linePath' = <<>>
    /\ position' = generateRandomLocation(k1, k2)
    /\ guessPosition' = NoPos
    /\ gameStarted' = TRUE
    /\ error' = ""
    /\ countdown' = VIEW_DURATION
    /\ showStreetView' = TRUE
    /\ mapVisible' = FALSE
    /\ roundComplete' = FALSE
    /\ showAnswer' = FALSE
    /\ showCongrats' = FALSE
    /\ showFailed' = FALSE
    /\ distance' = 0
    /\ showHint' = FALSE
    /\ hintText' = <<>>
    /\ hintUsed' = FALSE
    /\ countdownTimer' = COUNTDOWN_INTERVAL
    /\ UNCHANGED answerTimeout
BeginRound_KeepsHint(k1, k2) ==
    /\ showLine' = FALSE
    /\ linePath' = <<>>
    /\ position' = generateRandomLocation(k1, k2)
    /\ guessPosition' = NoPos
    /\ gameStarted' = TRUE
    /\ error' = ""
    /\ countdown' = VIEW_DURATION
    /\ showStreetView' = TRUE
    /\ mapVisible' = FALSE
    /\ roundComplete' = FALSE
    /\ showAnswer' = FALSE
    /\ showCongrats' = FALSE
    /\ showFailed' = FALSE
    /\ distance' = 0
    /\ UNCHANGED <<showHint, hintText, hintUsed>>
    /\ countdownTimer' = COUNTDOWN_INTERVAL
    /\ answerTimeout' = NoTimeout

BeginRound_KeepsStreetView(k1, k2) ==
    /\ showLine' = FALSE
    /\ linePath' = <<>>
    /\ position' = generateRandomLocation(k1, k2)
    /\ guessPosition' = NoPos
    /\ gameStarted' = TRUE
    /\ error' = ""
    /\ countdown' = VIEW_DURATION
    /\ UNCHANGED <<showStreetView, mapVisible>>
    /\ roundComplete' = FALSE
    /\ showAnswer' = FALSE
    /\ showCongrats' = FALSE
    /\ showFailed' = FALSE
    /\ distance' = 0
    /\ showHint' = FALSE
    /\ hintText' = <<>>
    /\ hintUsed' = FALSE
    /\ countdownTimer' = COUNTDOWN_INTERVAL
    /\ answerTimeout' = NoTimeout

BeginRound_KeepsGuess(k1, k2) ==
    /\ showLine' = FALSE
    /\ linePath' = <<>>
    /\ position' = generateRandomLocation(k1, k2)
    /\ UNCHANGED guessPosition
    /\ gameStarted' = TRUE
    /\ error' = ""
    /\ countdown' = VIEW_DURATION
    /\ showStreetView' = TRUE
    /\ mapVisible' = FALSE
    /\ roundComplete' = FALSE
    /\ showAnswer' = FALSE
    /\ showCongrats' = FALSE
    /\ showFailed' = FALSE
    /\ distance' = 0
    /\ showHint' = FALSE
    /\ hintText' = <<>>
    /\ hintUsed' = FALSE
    /\ countdownTimer' = COUNTDOWN_INTERVAL
    /\ answerTimeout' = NoTimeout

\* startNewRound lines 130-176: the state of a fresh round
BeginRound(k1, k2) ==
    /\ showLine' = FALSE
    /\ linePath' = <<>>
    /\ position' = generateRandomLocation(k1, k2)
    /\ guessPosition' = NoPos
    /\ gameStarted' = TRUE
    /\ error' = ""
    /\ countdown' = VIEW_DURATION
    /\ showStreetView' = TRUE
    /\ mapVisible' = FALSE
    /\ roundComplete' = FALSE
    /\ showAnswer' = FALSE
    /\ showCongrats' = FALSE
    /\ showFailed' = FALSE
    /\ distance' = 0
    /\ showHint' = FALSE
    /\ hintText' = <<>>
    /\ hintUsed' = FALSE
    /\ countdownTimer' = COUNTDOWN_INTERVAL
    /\ answerTimeout' = NoTimeout

StartNewRound_ClearsFirst(rl, op, err, at, pf) ==
    IF rl
    THEN /\ SiteBlocked(op)
         /\ UNCHANGED <<roundVars, score, isLoaded, geoInFlight>>
         /\ countdownTimer' = Off
         /\ error' = err
         /\ answerTimeout' = NoTimeout
         /\ panoInFlight' = pf
    ELSE IF CheckLimited
    THEN /\ CheckRateLimitLimited(op)
         /\ UNCHANGED <<roundVars, score, isLoaded, geoInFlight>>
         /\ countdownTimer' = Off
         /\ error' = err
         /\ answerTimeout' = NoTimeout
         /\ panoInFlight' = PanoEffect(pf, FALSE)
    ELSE /\ CheckRateLimitAllowed(op)
         /\ \E r \in RandomDraws : BeginRound(r[1], r[2])
         /\ UNCHANGED <<score, isLoaded>>
         /\ geoInFlight' = Outlived(geoInFlight)
         /\ panoInFlight' = PanoEffect(Outlived(pf), TRUE)
\* startNewRound as closed over by a render whose isRateLimited was rl.
\* err, at and pf are error, answerTimeout and panoInFlight as the caller
\* leaves them when no round starts.
StartNewRound(rl, op, err, at, pf) ==
    IF rl
    THEN /\ SiteBlocked(op)
         /\ UNCHANGED <<roundVars, countdownTimer, score, isLoaded, geoInFlight>>
         /\ error' = err
         /\ answerTimeout' = at
         /\ panoInFlight' = pf
    ELSE IF CheckLimited
    THEN /\ CheckRateLimitLimited(op)
         /\ UNCHANGED <<roundVars, countdownTimer, score, isLoaded, geoInFlight>>
         /\ error' = err
         /\ answerTimeout' = at
         /\ panoInFlight' = PanoEffect(pf, FALSE)
    ELSE /\ CheckRateLimitAllowed(op)
         /\ \E r \in RandomDraws : BeginRound(r[1], r[2])
         /\ UNCHANGED <<score, isLoaded>>
         /\ geoInFlight' = Outlived(geoInFlight)
         /\ panoInFlight' = PanoEffect(Outlived(pf), TRUE)

\* useEffect(() => { startNewRound(); ... }, []): the first render's closure
Mount ==
    /\ ~mounted
    /\ ~unmounted
    /\ StartNewRound(FALSE, "Mount", error, answerTimeout, panoInFlight)
    /\ mounted' = TRUE
    /\ UNCHANGED <<unmounted, randomDenom>>
    /\ truthHist' = TruthAfter(FALSE)

\* "Skip to Next Round" button, onClick={startNewRound}
Skip ==
    /\ mounted
    /\ ~TimerDue
    /\ StartNewRound(isRateLimited, "Skip", error, answerTimeout, panoInFlight)
    /\ UNCHANGED <<mounted, unmounted, randomDenom>>
    /\ truthHist' = TruthAfter(FALSE)

\* setTimeout(() => { startNewRound(); }, 5000)
AnswerTimeoutFire ==
    /\ answerTimeout.left = 0
    /\ StartNewRound(answerTimeout.rl, "AutoAdvance", error, NoTimeout, panoInFlight)
    /\ UNCHANGED <<mounted, unmounted, randomDenom>>
    /\ truthHist' = TruthAfter(FALSE)

\* LoadScript onLoad
ScriptLoaded ==
    /\ mounted
    /\ ~isLoaded
    /\ ~TimerDue
    /\ isLoaded' = TRUE
    /\ UNCHANGED <<roundVars, timerVars, limiterVars, historyVars, score, error,
                   geoInFlight, mounted, unmounted, pendingExpiry, truthHist,
                   randomDenom>>
    /\ panoInFlight' = PanoEffect(panoInFlight, FALSE)
    /\ ev' = [op |-> "ScriptLoaded", check |-> "none"]

\* getPanorama callback
PanoResult ==
    /\ ~TimerDue
    /\ \E l \in panoInFlight :
         \/ /\ UNCHANGED <<roundVars, timerVars, limiterVars, historyVars, score,
                           isLoaded, error, geoInFlight, mounted, unmounted,
                           randomDenom,
                           pendingExpiry>>
            /\ panoInFlight' = panoInFlight \ {l}
            /\ truthHist' = [truthHist EXCEPT !.last = l.cur,
                                              !.fails = IF l.cur /\ @ # Off THEN 0 ELSE @]
            /\ ev' = [op |-> "PanoFound", check |-> "none"]
         \/ /\ StartNewRound(l.rl, "PanoNotFound", StreetViewErrorText, answerTimeout,
                             panoInFlight \ {l})
            /\ UNCHANGED <<mounted, unmounted, randomDenom>>
            /\ truthHist' = [TruthAfter(l.cur) EXCEPT
                                !.last = l.cur,
                                !.fails = IF l.cur /\ @ # Off
                                          THEN Min(@ + 1, MaxFailures) ELSE @]

\* ---------------------------------------------------------------- guessing
AcceptGuess_ScoreReplaced(latLng, d) ==
    /\ guessPosition' = latLng
    /\ distance' = d
    /\ score' = Points(d)
    /\ linePath' = <<latLng, position>>
    /\ showLine' = TRUE
    /\ roundComplete' = TRUE
    /\ showAnswer' = TRUE
    /\ showCongrats' = IsCongrats(d)
    /\ showFailed' = IsFailed(d)
    /\ answerTimeout' = [left |-> ANSWER_DELAY, rl |-> isRateLimited]
    /\ UNCHANGED <<position, gameStarted, countdown, showStreetView, mapVisible,
                   showHint, hintText, hintUsed, countdownTimer>>

\* handleMapClick lines 188-262: a click that passed the guards and carries
\* a coordinate; d is what computeDistanceBetween returns
AcceptGuess(latLng, d) ==
    /\ guessPosition' = latLng
    /\ distance' = d
    /\ score' = score + Points(d)
    /\ linePath' = <<latLng, position>>
    /\ showLine' = TRUE
    /\ roundComplete' = TRUE
    /\ showAnswer' = TRUE
    /\ showCongrats' = IsCongrats(d)
    /\ showFailed' = IsFailed(d)
    /\ answerTimeout' = [left |-> ANSWER_DELAY, rl |-> isRateLimited]
    /\ UNCHANGED <<position, gameStarted, countdown, showStreetView, mapVisible,
                   showHint, hintText, hintUsed, countdownTimer>>

ClickIgnored_NoRoundComplete == ~gameStarted \/ showStreetView
ClickIgnored_NoStreetView == ~gameStarted \/ roundComplete
\* if (!gameStarted || showStreetView || roundComplete || ...) return;
ClickIgnored == ~gameStarted \/ showStreetView \/ roundComplete

\* what computeDistanceBetween can return for a truth and a guess
DistanceResults(truth, guess) == IF guess = truth THEN {0} ELSE Distances \ {0}

\* handleMapClick for a click event whose e.latLng is latLng (NoLatLng: the
\* event carries none); d is the distance the geometry library returns
MapClickWith(latLng, d) ==
    /\ mounted
    /\ ~TimerDue
    /\ UNCHANGED <<unmounted, truthHist, randomDenom>>
    /\ IF ClickIgnored
       THEN /\ UNCHANGED <<roundVars, timerVars, limiterVars, historyVars, score,
                           isLoaded, error, panoInFlight, geoInFlight, mounted,
                           pendingExpiry>>
            /\ ev' = [op |-> "MapClick", check |-> "none"]
       ELSE IF isRateLimited
       THEN /\ SiteBlocked("MapClick")
            /\ UNCHANGED <<roundVars, timerVars, score, isLoaded, error,
                           panoInFlight, geoInFlight, mounted>>
       ELSE IF CheckLimited
       THEN /\ CheckRateLimitLimited("MapClick")
            /\ UNCHANGED <<roundVars, timerVars, score, isLoaded, error,
                           geoInFlight, mounted>>
            /\ panoInFlight' = PanoEffect(panoInFlight, FALSE)
       ELSE /\ CheckRateLimitAllowed("MapClick")
            /\ UNCHANGED <<isLoaded, error, panoInFlight, geoInFlight, mounted>>
            /\ IF latLng = NoLatLng
               THEN UNCHANGED <<roundVars, timerVars, score>>
               ELSE IF position = NoPos
               THEN /\ guessPosition' = latLng
                    /\ UNCHANGED <<position, gameStarted, countdown, showStreetView,
                                   roundComplete, mapVisible, showAnswer,
                                   showCongrats, showFailed, distance, showLine,
                                   linePath, showHint, hintText, hintUsed,
                                   timerVars, score>>
               ELSE /\ score + Points(d) <= MaxScore
                    /\ AcceptGuess(latLng, d)

\* GoogleMap onClick={handleMapClick}
HandleMapClick ==
    \E latLng \in GuessPoints \cup {NoLatLng} :
        \E d \in DistanceResults(position, latLng) : MapClickWith(latLng, d)

CountdownTick_LateStop ==
    /\ countdownTimer = 0
    /\ IF countdown <= 0
       THEN /\ countdown' = 0
            /\ countdownTimer' = Off
            /\ showStreetView' = FALSE
            /\ mapVisible' = TRUE
       ELSE /\ countdown' = countdown - 1
            /\ countdownTimer' = COUNTDOWN_INTERVAL
            /\ UNCHANGED <<showStreetView, mapVisible>>
    /\ UNCHANGED <<position, guessPosition, gameStarted, roundComplete, showAnswer,
                   showCongrats, showFailed, distance, showLine, linePath, showHint,
                   hintText, hintUsed, answerTimeout, limiterVars, historyVars,
                   score, isLoaded, error, panoInFlight, geoInFlight, mounted,
                   unmounted, pendingExpiry, truthHist, randomDenom>>
    /\ ev' = [op |-> "CountdownTick", check |-> "none"]

CountdownTick_KeepsStreetView ==
    /\ countdownTimer = 0
    /\ IF countdown <= 1
       THEN /\ countdown' = 0
            /\ countdownTimer' = Off
            /\ UNCHANGED <<showStreetView, mapVisible>>
       ELSE /\ countdown' = countdown - 1
            /\ countdownTimer' = COUNTDOWN_INTERVAL
            /\ UNCHANGED <<showStreetView, mapVisible>>
    /\ UNCHANGED <<position, guessPosition, gameStarted, roundComplete, showAnswer,
                   showCongrats, showFailed, distance, showLine, linePath, showHint,
                   hintText, hintUsed, answerTimeout, limiterVars, historyVars,
                   score, isLoaded, error, panoInFlight, geoInFlight, mounted,
                   unmounted, pendingExpiry, truthHist, randomDenom>>
    /\ ev' = [op |-> "CountdownTick", check |-> "none"]

CountdownTick_NoClear ==
    /\ countdownTimer = 0
    /\ IF countdown <= 1
       THEN /\ countdown' = 0
            /\ countdownTimer' = COUNTDOWN_INTERVAL
            /\ showStreetView' = FALSE
            /\ mapVisible' = TRUE
       ELSE /\ countdown' = countdown - 1
            /\ countdownTimer' = COUNTDOWN_INTERVAL
            /\ UNCHANGED <<showStreetView, mapVisible>>
    /\ UNCHANGED <<position, guessPosition, gameStarted, roundComplete, showAnswer,
                   showCongrats, showFailed, distance, showLine, linePath, showHint,
                   hintText, hintUsed, answerTimeout, limiterVars, historyVars,
                   score, isLoaded, error, panoInFlight, geoInFlight, mounted,
                   unmounted, pendingExpiry, truthHist, randomDenom>>
    /\ ev' = [op |-> "CountdownTick", check |-> "none"]

\* the setInterval callback of startNewRound
CountdownTick ==
    /\ countdownTimer = 0
    /\ IF countdown <= 1
       THEN /\ countdown' = 0
            /\ countdownTimer' = Off
            /\ showStreetView' = FALSE
            /\ mapVisible' = TRUE
       ELSE /\ countdown' = countdown - 1
            /\ countdownTimer' = COUNTDOWN_INTERVAL
            /\ UNCHANGED <<showStreetView, mapVisible>>
    /\ UNCHANGED <<position, guessPosition, gameStarted, roundComplete, showAnswer,
                   showCongrats, showFailed, distance, showLine, linePath, showHint,
                   hintText, hintUsed, answerTimeout, limiterVars, historyVars,
                   score, isLoaded, error, panoInFlight, geoInFlight, mounted,
                   unmounted, pendingExpiry, truthHist, randomDenom>>
    /\ ev' = [op |-> "CountdownTick", check |-> "none"]

\* ------------------------------------------------------------------- hints
HintButtonRendered_Reusable == ~showStreetView /\ ~roundComplete /\ position # NoPos
\* the "Get Hint" button is rendered while !showStreetView && !roundComplete
\* && !hintUsed, and its handler acts if (position)
HintButtonRendered ==
    ~showStreetView /\ ~roundComplete /\ ~hintUsed /\ position # NoPos

\* a click on "Get Hint" and the synchronous part of getAddressHint
HintRequest ==
    /\ mounted
    /\ ~TimerDue
    /\ HintButtonRendered
    /\ showHint' = TRUE
    /\ hintUsed' = TRUE
    /\ UNCHANGED <<position, guessPosition, gameStarted, countdown, showStreetView,
                   roundComplete, mapVisible, showAnswer, showCongrats, showFailed,
                   distance, showLine, linePath, hintText, timerVars, score,
                   isLoaded, error, mounted, unmounted, truthHist, randomDenom>>
    /\ IF isRateLimited
       THEN /\ SiteBlocked("HintRequest")
            /\ UNCHANGED <<panoInFlight, geoInFlight>>
       ELSE IF CheckLimited
       THEN /\ CheckRateLimitLimited("HintRequest")
            /\ UNCHANGED geoInFlight
            /\ panoInFlight' = PanoEffect(panoInFlight, FALSE)
       ELSE /\ CheckRateLimitAllowed("HintRequest")
            /\ geoInFlight' =
                 Issue(geoInFlight, [pos |-> position, cur |-> truthHist.tracked])
            /\ UNCHANGED panoInFlight

\* the hint text getAddressHint sets for a geocoder answer
HintFor(pos, answer) ==
    LET quadrant == getQuadrant(pos.lat, pos.lng)
    IN  IF answer = "error"
        THEN <<"Location is in a suburb of", quadrant, "Calgary">>
        ELSE IF answer = "quadrantAddress"
        THEN <<"Location is in", quadrant, "Calgary, near", AddressOf(answer)>>
        ELSE <<"Location is in a suburb of", quadrant, "Calgary, near", AddressOf(answer)>>

\* getAddressHint after "await geocoder.current.geocode"
GeoResult ==
    /\ ~TimerDue
    /\ \E g \in geoInFlight, answer \in GeoAnswers :
         /\ geoInFlight' = geoInFlight \ {g}
         /\ hintText' = IF answer = "noResult" THEN hintText ELSE HintFor(g.pos, answer)
         /\ truthHist' = [truthHist EXCEPT !.last = g.cur]
         /\ ev' = [op |-> "GeoResult", check |-> "none"]
    /\ UNCHANGED <<position, guessPosition, gameStarted, countdown, showStreetView,
                   roundComplete, mapVisible, showAnswer, showCongrats, showFailed,
                   distance, showLine, linePath, showHint, hintUsed, timerVars,
                   limiterVars, historyVars, score, isLoaded, error, panoInFlight,
                   mounted, unmounted, pendingExpiry, randomDenom>>

\* ------------------------------------------------------------------ unlock
\* the setTimeout callback of checkRateLimit; the state setters of a
\* component that has been unmounted change nothing
RateLimitReset ==
    /\ rateLimitResetTimeout = 0
    /\ isRateLimited' = (unmounted /\ isRateLimited)
    /\ rateLimitMessage' = IF unmounted THEN rateLimitMessage ELSE ""
    /\ apiCallCount' = 0
    /\ rateLimitResetTimeout' = Off
    /\ UNCHANGED sinceLastCall
    /\ win' = IF win = NoWindow THEN win ELSE FreshWindow
    /\ lockAge' = IF unmounted THEN lockAge ELSE Off
    /\ UNCHANGED slide
    /\ UNCHANGED <<roundVars, timerVars, score, isLoaded, error, geoInFlight,
                   mounted, unmounted, pendingExpiry, truthHist, randomDenom>>
    /\ panoInFlight' = PanoEffect(panoInFlight, FALSE)
    /\ ev' = [op |-> "RateLimitReset", check |-> "none"]

\* -------------------------------------------------------------------- time
Left(timer) == IF timer = Off THEN RATE_LIMIT_DURATION ELSE timer

\* the next callback is due after NextDue milliseconds
NextDue ==
    Min(Left(countdownTimer), Min(Left(answerTimeout.left), Left(rateLimitResetTimeout)))

\* the instants at which the model looks at the program again: when the next
\* callback is due, one window length later (until the last call is more
\* than a window old), when the lockout has lasted RATE_LIMIT_DURATION, and
\* (where allowed checks are counted per interval) half a window before the
\* unlock
TimeSteps ==
    {NextDue}
        \cup (IF sinceLastCall <= RATE_LIMIT_WINDOW THEN {RATE_LIMIT_WINDOW} ELSE {})
        \cup (IF lockAge # Off /\ lockAge < RATE_LIMIT_DURATION
              THEN {RATE_LIMIT_DURATION - lockAge} ELSE {})
        \cup (IF slide # NoSlide /\ rateLimitResetTimeout > RATE_LIMIT_WINDOW
              THEN {rateLimitResetTimeout - RATE_LIMIT_WINDOW \div 2} ELSE {})

\* d milliseconds pass; no callback is due before they have passed
Advance ==
    /\ mounted \/ unmounted
    /\ \E d \in TimeSteps :
         /\ d > 0
         /\ d <= NextDue
         /\ countdownTimer' = IF countdownTimer = Off THEN Off ELSE countdownTimer - d
         /\ rateLimitResetTimeout' =
              IF rateLimitResetTimeout = Off THEN Off ELSE rateLimitResetTimeout - d
         /\ answerTimeout' =
              IF answerTimeout.left = Off THEN answerTimeout
              ELSE [answerTimeout EXCEPT !.left = @ - d]
         /\ sinceLastCall' = Saturate(sinceLastCall + d)
         /\ win' = IF win = NoWindow THEN win ELSE [win EXCEPT !.age = Saturate(@ + d)]
         /\ lockAge' = IF lockAge = Off THEN Off
                       ELSE Min(lockAge + d, RATE_LIMIT_DURATION + 1)
         /\ slide' = IF slide = NoSlide THEN slide
                     ELSE [slide EXCEPT !.age = Saturate(@ + d)]
         /\ pendingExpiry' =
              (pendingExpiry \/ (lockAge # Off /\ lockAge + d >= RATE_LIMIT_DURATION))
    /\ UNCHANGED <<roundVars, isRateLimited, rateLimitMessage, apiCallCount, score,
                   isLoaded, error, panoInFlight, geoInFlight, mounted, unmounted,
                   randomDenom,
                   truthHist>>
    /\ ev' = [op |-> "Advance", check |-> "none"]

Next ==
    \/ Mount
    \/ Skip
    \/ AnswerTimeoutFire
    \/ ScriptLoaded
    \/ PanoResult
    \/ HandleMapClick
    \/ CountdownTick
    \/ HintRequest
    \/ GeoResult
    \/ RateLimitReset
    \/ Advance

Spec == Init /\ [][Next]_vars

\* the limiter's call sites and timers, with the counting window followed
NextWindow ==
    \/ Mount
    \/ Skip
    \/ AnswerTimeoutFire
    \/ HandleMapClick
    \/ CountdownTick
    \/ HintRequest
    \/ RateLimitReset
    \/ Advance

SpecWindow == InitWindow /\ [][NextWindow]_vars

\* the whole program with the lookups followed round by round
SpecRounds == InitRounds /\ [][Next]_vars

\* round starts and panorama lookups, with the failed lookups counted
InitRetries ==
    InitProgram /\ win = NoWindow /\ truthHist = CountedTruthHist /\ randomDenom = RandDenom
        /\ slide = NoSlide

NextRetries ==
    \/ Mount
    \/ Skip
    \/ ScriptLoaded
    \/ PanoResult
    \/ CountdownTick
    \/ RateLimitReset
    \/ Advance

SpecRetries == InitRetries /\ [][NextRetries]_vars

\* the same steps with the allowed checks counted per interval
InitSliding ==
    InitProgram /\ win = NoWindow /\ truthHist = NoTruthHist /\ randomDenom = RandDenom
        /\ slide = FreshSlide

SpecSliding == InitSliding /\ [][NextRetries]_vars

\* the cleanup of the mount effect (the component is unmounted)
Unmount ==
    /\ mounted
    /\ ~TimerDue
    /\ mounted' = FALSE
    /\ unmounted' = TRUE
    /\ countdownTimer' = Off
    /\ answerTimeout' = NoTimeout
    /\ UNCHANGED <<roundVars, limiterVars, historyVars, score, isLoaded, error,
                   panoInFlight, geoInFlight, pendingExpiry, truthHist,
                   randomDenom>>
    /\ ev' = [op |-> "Unmount", check |-> "none"]

\* the round timers and the limiter of a component that can be unmounted
NextTeardown ==
    \/ Mount
    \/ Skip
    \/ AnswerTimeoutFire
    \/ HandleMapClick
    \/ CountdownTick
    \/ RateLimitReset
    \/ Advance
    \/ Unmount

SpecTeardown == Init /\ [][NextTeardown]_vars

\* handleMapClick for a click at a coordinate, with the distance that
\* computeDistanceBetween returns drawn from PointsDistances
ScoreGuess ==
    \E latLng \in GuessPoints :
        \E d \in (IF latLng = position THEN {0} ELSE PointsDistances \ {0}) :
            MapClickWith(latLng, d)

\* one round from the mount to its guess, scored at every distance
NextPoints ==
    \/ Mount
    \/ CountdownTick
    \/ ScoreGuess
    \/ Advance

SpecPoints == Init /\ [][NextPoints]_vars

\* the random source at every resolution up to SampleDenom
InitSampler ==
    /\ InitProgram
    /\ win = NoWindow
    /\ truthHist = NoTruthHist
    /\ randomDenom \in 1 .. SampleDenom
    /\ slide = NoSlide

\* the round starts of the player and the timers between them
NextSampler ==
    \/ Mount
    \/ Skip
    \/ CountdownTick
    \/ RateLimitReset
    \/ Advance

SpecSampler == InitSampler /\ [][NextSampler]_vars

\* truths on and around the centre lines of the bounding box
QuadrantPoints ==
    {[lat |-> defaultCenter.lat + i, lng |-> defaultCenter.lng + j] :
        i \in -QuadrantReach .. QuadrantReach, j \in -QuadrantReach .. QuadrantReach}

\* the first round of a session at the end of its countdown (the script not
\* yet loaded), its truth any of QuadrantPoints
InitQuadrant ==
    /\ position \in QuadrantPoints
    /\ guessPosition = NoPos
    /\ score = 0
    /\ gameStarted = TRUE
    /\ isLoaded = FALSE
    /\ error = ""
    /\ countdown = 0
    /\ showStreetView = FALSE
    /\ roundComplete = FALSE
    /\ mapVisible = TRUE
    /\ showAnswer = FALSE
    /\ showCongrats = FALSE
    /\ showFailed = FALSE
    /\ distance = 0
    /\ showLine = FALSE
    /\ linePath = <<>>
    /\ showHint = FALSE
    /\ hintText = <<>>
    /\ hintUsed = FALSE
    /\ isRateLimited = FALSE
    /\ rateLimitMessage = ""
    /\ apiCallCount = 1
    /\ sinceLastCall = VIEW_DURATION * COUNTDOWN_INTERVAL
    /\ countdownTimer = Off
    /\ answerTimeout = NoTimeout
    /\ rateLimitResetTimeout = Off
    /\ panoInFlight = {}
    /\ geoInFlight = {}
    /\ mounted = TRUE
    /\ unmounted = FALSE
    /\ ev = [op |-> "CountdownTick", check |-> "none"]
    /\ lockAge = Off
    /\ pendingExpiry = FALSE
    /\ win = NoWindow
    /\ truthHist = NoTruthHist
    /\ randomDenom = RandDenom
    /\ slide = NoSlide

\* the hint of that round: the request, the geocoder's answer and the time
\* between them
NextQuadrant ==
    \/ HintRequest
    \/ GeoResult
    \/ Advance

SpecQuadrant == InitQuadrant /\ [][NextQuadrant]_vars

\* ------------------------------------- the unguarded controller (App.tsx)
\* src/src/App.tsx keeps the same round state and timers as the rate-limited
\* controller, without the limiter and the hint. Its operations are written
\* over the variables the two share; of error only its presence is shared
\* (the texts differ), of answerTimeout only the time left, and of
\* panoInFlight only whether a lookup is outstanding.

UnguardedTimerDue == countdownTimer = 0 \/ answerTimeout.left = 0

\* useEffect(..., [position, isLoaded, startNewRound]) of App.tsx: out tells
\* whether a lookup is outstanding before the effect runs
UnguardedPanoEffect(out, roundStarted) ==
    IF position' # NoPos /\ isLoaded' /\ (roundStarted \/ isLoaded' # isLoaded)
    THEN TRUE
    ELSE out

\* const points = Math.max(0, 5000 - Math.floor(calculatedDistance))
UnguardedPoints(d) ==
    IF d \div UnitsPerMetre >= 5000 THEN 0 ELSE 5000 - d \div UnitsPerMetre

\* startNewRound of App.tsx, followed by the panorama effect
UnguardedStartNewRound(k1, k2, out) ==
    /\ showLine' = FALSE
    /\ linePath' = <<>>
    /\ position' = generateRandomLocation(k1, k2)
    /\ guessPosition' = NoPos
    /\ gameStarted' = TRUE
    /\ error' = ""
    /\ countdown' = 10
    /\ showStreetView' = TRUE
    /\ mapVisible' = FALSE
    /\ roundComplete' = FALSE
    /\ showAnswer' = FALSE
    /\ showCongrats' = FALSE
    /\ showFailed' = FALSE
    /\ distance' = 0
    /\ countdownTimer' = 1000
    /\ answerTimeout'.left = Off
    /\ UNCHANGED <<score, isLoaded>>
    /\ (panoInFlight' # {}) = UnguardedPanoEffect(out, TRUE)

\* useEffect(() => { startNewRound(); ... }, []) of App.tsx
UnguardedMount ==
    /\ ~mounted
    /\ mounted' = TRUE
    /\ \E r \in RandomDraws : UnguardedStartNewRound(r[1], r[2], panoInFlight # {})

\* "Skip to Next Round" button of App.tsx
UnguardedSkip ==
    /\ mounted
    /\ ~UnguardedTimerDue
    /\ UNCHANGED mounted
    /\ \E r \in RandomDraws : UnguardedStartNewRound(r[1], r[2], panoInFlight # {})

\* setTimeout(() => { startNewRound(); }, 5000) of App.tsx
UnguardedAnswerTimeoutFire ==
    /\ answerTimeout.left = 0
    /\ UNCHANGED mounted
    /\ \E r \in RandomDraws : UnguardedStartNewRound(r[1], r[2], panoInFlight # {})

\* what an operation of App.tsx that changes no round state leaves alone
UnguardedRoundKept ==
    /\ UNCHANGED <<position, guessPosition, score, gameStarted, countdown,
                   showStreetView, roundComplete, mapVisible, showAnswer,
                   showCongrats, showFailed, distance, showLine, linePath, mounted>>
    /\ (error' = "") = (error = "")

\* LoadScript onLoad of App.tsx
UnguardedScriptLoaded ==
    /\ mounted
    /\ ~isLoaded
    /\ ~UnguardedTimerDue
    /\ isLoaded' = TRUE
    /\ UnguardedRoundKept
    /\ UNCHANGED countdownTimer
    /\ answerTimeout'.left = answerTimeout.left
    /\ (panoInFlight' # {}) = UnguardedPanoEffect(panoInFlight # {}, FALSE)

\* getPanorama callback of App.tsx, status OK
UnguardedPanoFound ==
    /\ ~UnguardedTimerDue
    /\ panoInFlight # {}
    /\ UnguardedRoundKept
    /\ UNCHANGED <<isLoaded, countdownTimer>>
    /\ answerTimeout'.left = answerTimeout.left
    /\ panoInFlight' = {}

\* getPanorama callback of App.tsx, any other status: setError, startNewRound
UnguardedPanoNotFound ==
    /\ ~UnguardedTimerDue
    /\ panoInFlight # {}
    /\ UNCHANGED mounted
    /\ \E r \in RandomDraws : UnguardedStartNewRound(r[1], r[2], FALSE)

\* the setInterval callback of App.tsx's startNewRound
UnguardedCountdownTick ==
    /\ countdownTimer = 0
    /\ IF countdown <= 1
       THEN /\ countdown' = 0
            /\ countdownTimer' = Off
            /\ showStreetView' = FALSE
            /\ mapVisible' = TRUE
       ELSE /\ countdown' = countdown - 1
            /\ countdownTimer' = 1000
            /\ UNCHANGED <<showStreetView, mapVisible>>
    /\ UNCHANGED <<position, guessPosition, score, gameStarted, roundComplete,
                   showAnswer, showCongrats, showFailed, distance, showLine,
                   linePath, mounted, isLoaded>>
    /\ (error' = "") = (error = "")
    /\ answerTimeout'.left = answerTimeout.left
    /\ (panoInFlight' # {}) = (panoInFlight # {})

\* handleMapClick of App.tsx for a click whose e.latLng is latLng; d is the
\* distance the geometry library returns
UnguardedHandleMapClick(latLng, d) ==
    /\ mounted
    /\ ~UnguardedTimerDue
    /\ UNCHANGED <<isLoaded, countdownTimer, position, gameStarted, countdown,
                   showStreetView, mapVisible, mounted>>
    /\ (error' = "") = (error = "")
    /\ (panoInFlight' # {}) = (panoInFlight # {})
    /\ IF (~gameStarted \/ showStreetView \/ roundComplete) \/ latLng = NoLatLng
       THEN /\ UNCHANGED <<guessPosition, score, roundComplete, showAnswer,
                           showCongrats, showFailed, distance, showLine, linePath>>
            /\ answerTimeout'.left = answerTimeout.left
       ELSE IF position = NoPos
       THEN /\ guessPosition' = latLng
            /\ UNCHANGED <<score, roundComplete, showAnswer, showCongrats,
                           showFailed, distance, showLine, linePath>>
            /\ answerTimeout'.left = answerTimeout.left
       ELSE /\ guessPosition' = latLng
            /\ distance' = d
            /\ score' = score + UnguardedPoints(d)
            /\ linePath' = <<latLng, position>>
            /\ showLine' = TRUE
            /\ roundComplete' = TRUE
            /\ showAnswer' = TRUE
            /\ showCongrats' = (d <= 3000 * UnitsPerMetre)
            /\ showFailed' = (d > 3000 * UnitsPerMetre)
            /\ answerTimeout'.left = 5000

\* time passes for App.tsx: its timers run down together and none is overrun
UnguardedAdvance ==
    /\ mounted
    /\ UnguardedRoundKept
    /\ UNCHANGED isLoaded
    /\ (panoInFlight' # {}) = (panoInFlight # {})
    /\ (countdownTimer' = Off) = (countdownTimer = Off)
    /\ (answerTimeout'.left = Off) = (answerTimeout.left = Off)
    /\ countdownTimer # Off => (countdownTimer' >= 0 /\ countdownTimer' < countdownTimer)
    /\ answerTimeout.left # Off
         => (answerTimeout'.left >= 0 /\ answerTimeout'.left < answerTimeout.left)
    /\ (countdownTimer # Off /\ answerTimeout.left # Off)
         => countdownTimer - countdownTimer' = answerTimeout.left - answerTimeout'.left

\* ------------------------------------------------------------------ claims
\* what a map click that is ignored leaves alone
clickFrame == <<roundVars, timerVars, limiterVars, score, error, panoInFlight, geoInFlight>>

\* C1: once a guess has been scored (roundComplete), a further map click
\* changes nothing: guess, distance, outcome flags and score stay as they
\* were and no auto-advance timeout is armed again.
C1_SecondClickChangesNothing ==
    [][(roundComplete /\ HandleMapClick) => UNCHANGED clickFrame]_vars

\* a click was delivered while the round was already scored
C1_Witness ==
    roundComplete /\ ev = [op |-> "MapClick", check |-> "none"] /\ score = Points(0)

\* C2: a map click delivered while the street view is shown (Viewing), or
\* before the game has started, is a no-op: the guess stays absent and score,
\* distance, outcome, phase, timers and the limiter are unchanged.
C2_ClickWhileViewingIsNoOp ==
    [][((~gameStarted \/ showStreetView) /\ HandleMapClick)
          => (UNCHANGED clickFrame /\ guessPosition' = NoPos)]_vars

\* a click was delivered during the countdown
C2_Witness ==
    Viewing /\ countdown < VIEW_DURATION /\ ev = [op |-> "MapClick", check |-> "none"]

C4_OutcomeFlags ==
    /\ roundComplete =>
          /\ showCongrats <=> (distance <= SUCCESS_RADIUS * UnitsPerMetre)
          /\ showFailed <=> ~(distance <= SUCCESS_RADIUS * UnitsPerMetre)
    /\ ~roundComplete => (~showCongrats /\ ~showFailed)

\* a guess exactly 3000 m from the truth was scored as a success
C4_Witness ==
    roundComplete /\ distance = SUCCESS_RADIUS * UnitsPerMetre /\ showCongrats

\* C5: the score never decreases; it changes only in the step that completes
\* a round, and then by at most 5000.
C5_ScoreMonotone ==
    [][/\ score' >= score
       /\ score' - score <= MAX_POINTS
       /\ (score' # score => (~roundComplete /\ roundComplete'))]_vars

\* a second round was started after a scored one and the score was kept
C5_Witness ==
    score > 0 /\ Viewing
\* the step that leads to the primed state called checkRateLimit
Invoked == ev'.check \in {"Allowed", "Limited"}

\* the step that leads to the primed state consulted the limiter: it called
\* checkRateLimit, or returned at the isRateLimited test of its call site
\* while the lockout was on
Consulted == Invoked \/ (ev'.check = "Blocked" /\ isRateLimited)

\* C6: counting from the first call of a fresh limiter, the first 10
\* checkRateLimit calls made within 60 s of it are allowed, and the 11th made
\* within those 60 s is refused and starts a lockout of RATE_LIMIT_DURATION.
C6_TenAllowedEleventhLimited ==
    [][(Invoked /\ ~isRateLimited /\ win.fresh
          /\ (win.calls = 0 \/ win.age <= RATE_LIMIT_WINDOW))
         => /\ win.calls < 10 => ev'.check = "Allowed"
            /\ win.calls = 10 =>
                  /\ ev'.check = "Limited"
                  /\ isRateLimited'
                  /\ rateLimitResetTimeout' = RATE_LIMIT_DURATION]_vars

\* the 11th call of a window has just been refused, after the first tick of
\* the countdown
C6_Witness ==
    /\ ev.check = "Limited"
    /\ win.fresh /\ win.calls = 11 /\ win.age > 0 /\ win.age <= RATE_LIMIT_WINDOW
    /\ isRateLimited /\ lockAge = 0

\* C7: once a lockout has lasted RATE_LIMIT_DURATION, the next call site that
\* consults the limiter is allowed and leaves the call counter at 1.
C7_AllowedAfterFullLockout ==
    [][(pendingExpiry /\ Consulted) => (ev'.check = "Allowed" /\ apiCallCount' = 1)]_vars

\* C8: while the lockout is on, a call site that consults the limiter is
\* refused and the call counter and the last-call time stay as they were.
C8_LockoutRefusesEveryCall ==
    [][(isRateLimited /\ ev'.check # "none")
         => /\ ev'.check \in {"Blocked", "Limited"}
            /\ apiCallCount' = apiCallCount
            /\ sinceLastCall' = sinceLastCall]_vars

\* C9: a lockout that began lockAge ms ago ends when it is RATE_LIMIT_DURATION
\* old: while it is on, the unlock is scheduled for exactly that moment.
C9_UnlockAtStartPlusDuration ==
    isRateLimited =>
        /\ rateLimitResetTimeout # Off
        /\ lockAge + rateLimitResetTimeout = RATE_LIMIT_DURATION

\* C10: a checkRateLimit call made with no lockout on and more than
\* RATE_LIMIT_WINDOW after the start of the current window resets the counter
\* and restarts the window, so it is allowed and leaves the counter at 1.
C10_WindowResetsAfterWindowLength ==
    [][(Invoked /\ ~isRateLimited /\ win.age > RATE_LIMIT_WINDOW)
         => /\ ev'.check = "Allowed"
            /\ apiCallCount' = 1
            /\ win'.age = 0]_vars

\* the operations that call startNewRound
RoundStartOps == {"Mount", "Skip", "AutoAdvance", "PanoNotFound"}

\* the step that leads to the primed state began a new round
RoundBegan == ev'.op \in RoundStartOps /\ ev'.check = "Allowed"

\* the step that leads to the primed state was a round start that the
\* limiter denied, at the isRateLimited test or in checkRateLimit
RoundDenied == ev'.op \in RoundStartOps /\ ev'.check \in {"Blocked", "Limited"}

\* the step that leads to the primed state called getPanorama: the truth was
\* set anew, or the script finished loading, or isRateLimited changed, while a
\* truth is set and the script is loaded
PanoLookupIssued ==
    /\ position' # NoPos
    /\ isLoaded'
    /\ (RoundBegan \/ isLoaded' # isLoaded \/ isRateLimited' # isRateLimited)

\* the step that leads to the primed state called geocoder.geocode
GeoLookupIssued == ev'.op = "HintRequest" /\ ev'.check = "Allowed"

\* C11: every step that issues an external lookup (getPanorama or geocode)
\* has made a rate-limit check of its own that returned Allowed; no lookup is
\* issued by a step whose check returned Limited or that made no check.
C11_LookupsFollowAllowedCheck ==
    [][(PanoLookupIssued \/ GeoLookupIssued) => ev'.check = "Allowed"]_vars

\* C12: a round start that the limiter denies begins no round: truth, guess,
\* phase, countdown, distance, outcome, hint, score and the pending round
\* timers are as before (the auto-advance timeout that made the attempt has
\* fired and is no longer pending).
C12_DeniedStartChangesNothing ==
    [][RoundDenied
         => /\ UNCHANGED <<roundVars, score, countdownTimer>>
            /\ \/ answerTimeout' = answerTimeout
               \/ ev'.op = "AutoAdvance" /\ answerTimeout' = NoTimeout]_vars

\* a skip was denied by checkRateLimit while the countdown was running
C12_Witness ==
    /\ ev = [op |-> "Skip", check |-> "Limited"]
    /\ Viewing
    /\ countdown < VIEW_DURATION
    /\ countdownTimer # Off

\* the auto-advance of a scored round has fired and was denied, and no round
\* has begun since
DeniedAdvanceOutstanding == roundComplete /\ answerTimeout.left = Off

\* C13: a denied round start is not dropped: when the auto-advance of a
\* scored round was denied and the limiter has capacity again, something that
\* can begin the round without the user is still pending (a timer, or a
\* lookup whose answer restarts the round).
C13_DeniedStartStaysScheduled ==
    (mounted /\ DeniedAdvanceOutstanding /\ ~isRateLimited /\ ~CheckLimited)
        => (rateLimitResetTimeout # Off \/ countdownTimer # Off \/ panoInFlight # {})

\* C14: no round runs on a truth whose panorama lookup failed: while the
\* current truth is one for which a lookup has answered "not found", the
\* phase does not become Guessing and no guess is scored.
C14_NoRoundOnFailedTruth ==
    [][(truthHist.failed /\ truthHist'.failed)
         => /\ Guessing' => Guessing
            /\ Scored' => Scored]_vars

\* C15: entering Scored arms the auto-advance ANSWER_DELAY ahead, and when it
\* fires the phase goes from Scored to Viewing with a new round (countdown at
\* VIEW_DURATION, countdown timer started).
C15_AutoAdvanceStartsRound ==
    [][/\ (~roundComplete /\ roundComplete') => answerTimeout'.left = ANSWER_DELAY
       /\ AnswerTimeoutFire
            => /\ Viewing'
               /\ countdown' = VIEW_DURATION
               /\ countdownTimer' = COUNTDOWN_INTERVAL]_vars

\* the state a skip leaves: Viewing on a newly sampled truth with no guess,
\* the countdown at VIEW_DURATION, a countdown timer just started and no
\* auto-advance pending
SkipRestarted ==
    /\ Viewing'
    /\ position' \in {generateRandomLocation(r[1], r[2]) : r \in RandomDraws}
    /\ guessPosition' = NoPos
    /\ countdown' = VIEW_DURATION
    /\ countdownTimer' = COUNTDOWN_INTERVAL
    /\ answerTimeout'.left = Off

C17_RoundStartCancelsTimers ==
    [][/\ RoundBegan
            => /\ answerTimeout'.left = Off
               /\ countdownTimer' = COUNTDOWN_INTERVAL
               /\ countdown' = VIEW_DURATION
       /\ answerTimeout.left # Off => roundComplete
       /\ countdown' < countdown => (countdownTimer = 0 /\ countdown' = countdown - 1)]_vars

\* a scored round was skipped 2 s before its auto-advance was due, and the
\* new round has run for 5 s without a second round start
C17_Witness ==
    /\ Viewing
    /\ score > 0
    /\ countdown = VIEW_DURATION - 5
    /\ sinceLastCall = 5000
    /\ apiCallCount = 3
    /\ answerTimeout.left = Off

\* the step that leads to the primed state delivered the answer of a lookup
\* that had been issued in an earlier round than the one it answered in
OutlivedResult ==
    /\ truthHist.tracked
    /\ ev'.op \in {"PanoFound", "PanoNotFound", "GeoResult"}
    /\ ~truthHist'.last

\* C18: the answer of a panorama or geocode lookup that arrives after the
\* round that issued it has ended is discarded: it starts no round, leaves
\* truth, countdown, phase and the countdown timer alone and does not set the
\* hint text.
C18_OutlivedResultDiscarded ==
    [][OutlivedResult
         => /\ ~RoundBegan
            /\ UNCHANGED <<position, countdown, showStreetView, roundComplete,
                           countdownTimer, hintText>>]_vars

\* C19: once the component has been unmounted no timer is outstanding: the
\* countdown interval, the auto-advance timeout and the rate-limit unlock
\* timeout have all been cancelled, so no timer callback runs afterwards.
C19_TeardownCancelsTimers ==
    unmounted
        => /\ countdownTimer = Off
           /\ answerTimeout.left = Off
           /\ rateLimitResetTimeout = Off

\* the step that leads to the primed state delivered "not found" for a
\* lookup issued in the current round
CurrentTruthNotFound ==
    /\ truthHist.tracked
    /\ ev'.op = "PanoNotFound"
    /\ truthHist'.last

\* C20: when the panorama lookup for the current truth answers "not found",
\* the same step samples a new truth and restarts Viewing from scratch: no
\* guess, distance 0, hint reset, countdown at VIEW_DURATION, no auto-advance
\* pending and a new countdown timer.
C20_NotFoundRestartsViewing ==
    [][CurrentTruthNotFound
         => /\ RoundBegan
            /\ Viewing'
            /\ position' \in {generateRandomLocation(r[1], r[2]) : r \in RandomDraws}
            /\ guessPosition' = NoPos
            /\ distance' = 0
            /\ ~showHint' /\ ~hintUsed' /\ hintText' = <<>>
            /\ countdown' = VIEW_DURATION
            /\ countdownTimer' = COUNTDOWN_INTERVAL
            /\ answerTimeout'.left = Off]_vars

\* C21: resampling after "not found" is bounded: once 5 panorama lookups in a
\* row have answered "not found" for the truth of their round, a further
\* "not found" starts no new round.
C21_ResamplingIsCapped ==
    [][(truthHist.fails >= 5 /\ CurrentTruthNotFound) => ~RoundBegan]_vars

\* truths two runs can differ in: two corners of the bounding box
OtherTruths ==
    {[lat |-> CALGARY_BOUNDS.south, lng |-> CALGARY_BOUNDS.west],
     [lat |-> CALGARY_BOUNDS.north, lng |-> CALGARY_BOUNDS.east]}

\* C22: while the phase is Viewing or Guessing nothing handed to the map
\* (centre, answer marker, line) equals or depends on the truth: the outputs
\* are the same whatever the truth is.
C22_MapHidesTruthUntilScored ==
    (Viewing \/ Guessing)
        => /\ MapOutputs(position).center # position
           /\ MapOutputs(position).answerMarker = <<>>
           /\ MapOutputs(position).line = <<>>
           /\ \A t \in OtherTruths : MapOutputs(t) = MapOutputs(position)

\* C23: a hint is requested at most once per round and only in Guessing:
\* hintUsed goes from false to true only by a hint request made in Guessing,
\* a request is honoured (and a geocode lookup issued) only while hintUsed is
\* false, hintUsed then stays true until a round starts, and a round start
\* resets hintUsed, the hint text and the hint display.
C23_OneHintPerRound ==
    [][/\ (~hintUsed /\ hintUsed') => (Guessing /\ ev'.op = "HintRequest")
       /\ (ev'.op = "HintRequest" \/ GeoLookupIssued) => (Guessing /\ ~hintUsed /\ hintUsed')
       /\ (hintUsed /\ ~hintUsed') => RoundBegan
       /\ RoundBegan => (~hintUsed' /\ hintText' = <<>> /\ ~showHint')]_vars

\* a hint has been requested in Guessing in a round after the first one, and
\* its geocode lookup is in flight
C23_Witness ==
    /\ Guessing
    /\ hintUsed /\ showHint
    /\ ev = [op |-> "HintRequest", check |-> "Allowed"]
    /\ geoInFlight # {}
    /\ apiCallCount > 2

\* the quadrant-only hint for the current truth
QuadrantOnlyHint ==
    <<"Location is in a suburb of", getQuadrant(position.lat, position.lng), "Calgary">>

\* C24: a requested hint for which no address is available gets the
\* quadrant-only text: a request that the limiter refuses sets it at once,
\* and once the geocode call of the current round's request has answered (or
\* failed, or returned no result) the hint text is not empty.
C24_HintFallsBackToQuadrant ==
    [][/\ (ev'.op = "HintRequest" /\ ev'.check \in {"Blocked", "Limited"})
            => hintText' = QuadrantOnlyHint
       /\ (ev'.op = "GeoResult" /\ hintUsed') => hintText' # <<>>]_vars

\* C25: rate limiting does not stop a round that is in progress: in Viewing
\* the countdown timer is running and each of its ticks takes one second off
\* the countdown whatever the limiter's state, and a first map
\* click in Guessing that carries a coordinate is scored (the phase becomes
\* Scored) also while the limiter is in lockout or at its call limit.
C25_LimiterDoesNotBlockRound ==
    [][/\ Viewing' => countdownTimer' # Off
       /\ ev'.op = "CountdownTick" => (Viewing /\ countdown' = countdown - 1)
       /\ \A latLng \in GuessPoints : \A d \in Distances :
            (Guessing /\ MapClickWith(latLng, d)) => Scored']_vars

\* the points of a distance of d hundredths of a metre, as the scoring rule
\* max(0, 5000 - floor(d)) gives them
PointsRule(d) ==
    IF d \div UnitsPerMetre >= MAX_POINTS THEN 0 ELSE MAX_POINTS - d \div UnitsPerMetre

\* C26: the points a scored guess adds are max(0, 5000 - floor(d)) for its
\* distance d: 5000 at 0 m, 2500 at 2500 m, 0 from 5000 m on, always within
\* 0..5000, and no farther distance earns more points than d does while no
\* closer one earns fewer.
C26_PointsRule ==
    [][\A latLng \in GuessPoints : \A d \in PointsDistances :
          (MapClickWith(latLng, d) /\ roundComplete' /\ ~roundComplete)
             => LET p == score' - score IN
                /\ p = PointsRule(d)
                /\ p \in 0 .. MAX_POINTS
                /\ (d = 0 => p = MAX_POINTS)
                /\ (d = 2500 * UnitsPerMetre => p = 2500)
                /\ (d >= MAX_POINTS * UnitsPerMetre => p = 0)
                /\ \A d2 \in PointsDistances :
                     /\ d2 >= d => Points(d2) <= p
                     /\ d2 <= d => Points(d2) >= p]_vars

\* a guess 2500.99 m from the truth has been scored with 2500 points
C26_Witness ==
    /\ roundComplete
    /\ ev = [op |-> "MapClick", check |-> "Allowed"]
    /\ distance = 2500 * UnitsPerMetre + UnitsPerMetre - 1
    /\ score = 2500

\* the coordinate lies inside the bounding box, its edges included
InsideBox(p) ==
    /\ CALGARY_BOUNDS.south <= p.lat /\ p.lat <= CALGARY_BOUNDS.north
    /\ CALGARY_BOUNDS.west <= p.lng /\ p.lng <= CALGARY_BOUNDS.east

\* C27: the truth changes only in a step that starts a round, and every
\* round start leaves a truth inside the bounding box (south <= lat <= north
\* and west <= lng <= east), whatever values the random source returns and
\* however many rounds were started before.
C27_TruthInsideBox ==
    [][/\ position' # position => RoundBegan
       /\ RoundBegan => (position' # NoPos /\ InsideBox(position'))]_vars

\* a skip has started a round whose truth lies strictly inside the box, from
\* random values of the finest resolution
C27_Witness ==
    /\ ev = [op |-> "Skip", check |-> "Allowed"]
    /\ randomDenom = SampleDenom
    /\ apiCallCount > 2
    /\ CALGARY_BOUNDS.south < position.lat /\ position.lat < CALGARY_BOUNDS.north
    /\ CALGARY_BOUNDS.west < position.lng /\ position.lng < CALGARY_BOUNDS.east

\* C28: a countdown tick happens only in Viewing and takes exactly 1 off the
\* countdown; the tick that brings it to 0 shows the map (Guessing) and stops
\* the countdown timer, every other tick stays in Viewing with the timer set
\* for the next second. A round starts with a countdown of 10, the countdown
\* changes in no other step, and the timer runs only in Viewing, so Guessing
\* is entered by the tenth tick of a round and no tick follows it.
C28_CountdownTicks ==
    [][/\ ev'.op = "CountdownTick"
            => /\ Viewing
               /\ countdown' = countdown - 1
               /\ countdown' = 0 => (Guessing' /\ countdownTimer' = Off)
               /\ countdown' > 0 => (Viewing' /\ countdownTimer' = COUNTDOWN_INTERVAL)
       /\ RoundBegan => countdown' = VIEW_DURATION
       /\ countdown' # countdown => (ev'.op = "CountdownTick" \/ RoundBegan)
       /\ (Viewing /\ Guessing') => (ev'.op = "CountdownTick" /\ countdown' = 0)
       /\ countdownTimer' # Off => Viewing']_vars

\* the tenth tick of a round has just shown the map and stopped the timer,
\* ten seconds after the round's start
C28_Witness ==
    /\ Guessing
    /\ ev = [op |-> "CountdownTick", check |-> "none"]
    /\ countdown = 0
    /\ countdownTimer = Off
    /\ sinceLastCall = VIEW_DURATION * COUNTDOWN_INTERVAL

\* C29: every round start that the limiter allows leaves the same fresh
\* round, whatever the state before it: a sampled truth, no guess, distance
\* 0, the outcome flags, the answer and the line cleared, the hint unused
\* with no text, a countdown of 10, phase Viewing and the countdown timer set
\* to one second; the score is left as it was.
C29_RoundStartIsFresh ==
    [][RoundBegan
          => /\ position' \in {generateRandomLocation(r[1], r[2]) : r \in RandomDraws}
             /\ position' # NoPos
             /\ guessPosition' = NoPos
             /\ distance' = 0
             /\ ~roundComplete' /\ ~showAnswer' /\ ~showCongrats' /\ ~showFailed'
             /\ ~showLine' /\ linePath' = <<>>
             /\ ~hintUsed' /\ ~showHint' /\ hintText' = <<>>
             /\ countdown' = VIEW_DURATION
             /\ Viewing'
             /\ countdownTimer' = COUNTDOWN_INTERVAL
             /\ answerTimeout' = NoTimeout
             /\ score' = score]_vars

\* the auto-advance has started a fresh round after a scored one and the
\* points of that round were kept
C29_Witness ==
    /\ ev = [op |-> "AutoAdvance", check |-> "Allowed"]
    /\ Viewing
    /\ countdown = VIEW_DURATION
    /\ guessPosition = NoPos
    /\ score > 0

\* C30: the countdown is always an integer from 0 to 10; it is 0 in Guessing
\* and in Scored, and from 1 to 10 in Viewing.
C30_CountdownRange ==
    /\ countdown \in 0 .. VIEW_DURATION
    /\ (Guessing \/ Scored) => countdown = 0
    /\ Viewing => countdown \in 1 .. VIEW_DURATION

\* the last second of Viewing
C30_Witness ==
    Viewing /\ countdown = 1 /\ countdownTimer = 0

\* C31: the phase changes only along Viewing -> Guessing, by the countdown
\* tick that reaches 0; Guessing -> Scored, by a map click that is accepted as
\* the round's guess; and any phase -> Viewing, by a round start. Scored is
\* never entered from Viewing and Guessing never from Scored.
C31_PhaseTransitions ==
    [][/\ (Viewing /\ ~Viewing')
            => (Guessing' /\ ev'.op = "CountdownTick" /\ countdown' = 0)
       /\ (Guessing /\ ~Guessing')
            => \/ Scored' /\ ev' = [op |-> "MapClick", check |-> "Allowed"]
               \/ Viewing' /\ RoundBegan
       /\ (Scored /\ ~Scored') => (Viewing' /\ RoundBegan)
       /\ (~Viewing /\ Viewing') => RoundBegan
       /\ (~Guessing /\ Guessing') => Viewing
       /\ (~Scored /\ Scored') => Guessing]_vars

\* a scored round has been left for Viewing by the auto-advance
C31_Witness ==
    /\ Viewing
    /\ ev = [op |-> "AutoAdvance", check |-> "Allowed"]
    /\ score >= MAX_POINTS
    /\ sinceLastCall = 0

\* C32: the round is complete exactly when a guess is present; a complete
\* round has a truth and the street view hidden; the answer is shown only in
\* a complete round; the street view and the map are never both shown.
C32_NoIllegalFlags ==
    /\ roundComplete <=> (guessPosition # NoPos)
    /\ roundComplete => (position # NoPos /\ ~showStreetView)
    /\ showAnswer => roundComplete
    /\ ~(showStreetView /\ mapVisible)

\* a round completed by a guess, the map shown and the answer on it
C32_Witness ==
    /\ roundComplete
    /\ guessPosition # NoPos
    /\ position # NoPos
    /\ showAnswer
    /\ mapVisible
    /\ ~showStreetView

\* C33: the quadrant named in a hint is Northeast for a truth north and east
\* of the box centre, Northwest for one north and west, Southeast for one
\* south and east, and Southwest otherwise; a truth on the centre latitude or
\* on the centre longitude is named Southwest.
C33_QuadrantOfTruth ==
    [][(ev'.op = "GeoResult" /\ hintText' # <<>>)
          => LET lat == position.lat
                 lng == position.lng
                 quadrant == hintText'[2]
             IN  /\ (lat > defaultCenter.lat /\ lng > defaultCenter.lng)
                        => quadrant = "Northeast"
                 /\ (lat > defaultCenter.lat /\ lng < defaultCenter.lng)
                        => quadrant = "Northwest"
                 /\ (lat < defaultCenter.lat /\ lng > defaultCenter.lng)
                        => quadrant = "Southeast"
                 /\ (lat < defaultCenter.lat /\ lng < defaultCenter.lng)
                        => quadrant = "Southwest"
                 /\ (lat = defaultCenter.lat \/ lng = defaultCenter.lng)
                        => quadrant = "Southwest"]_vars

\* the hint of a truth due north of the centre names the Southwest
C33_Witness ==
    /\ ev.op = "GeoResult"
    /\ position.lat > defaultCenter.lat
    /\ position.lng = defaultCenter.lng
    /\ hintText # <<>>
    /\ hintText[2] = "Southwest"

\* C34: in the RATE_LIMIT_WINDOW ms that begin with an allowed check at most
\* MAX_API_CALLS checks are allowed, over all call sites together (the
\* interval watched begins with the first allowed check and, once it is
\* over, with the next allowed one).
C34_AtMostTenAllowedPerWindow ==
    slide.allowed <= MAX_API_CALLS

\* C35: the call counter is always between 0 and MAX_API_CALLS. A check that
\* is allowed leaves it 1 above the value it had after the window test of
\* that check (0 when the last call is more than RATE_LIMIT_WINDOW old); no
\* other step changes it, except the scheduled unlock, which sets it to 0.
C35_CallCounter ==
    [][/\ apiCallCount' \in 0 .. MAX_API_CALLS
       /\ ev'.check = "Allowed"
            => apiCallCount'
                 = (IF sinceLastCall > RATE_LIMIT_WINDOW THEN 0 ELSE apiCallCount) + 1
       /\ ev'.check # "Allowed"
            => \/ apiCallCount' = apiCallCount
               \/ apiCallCount' = 0 /\ ev'.op = "RateLimitReset"]_vars

\* after a scored round and with no lockout on, a skip was counted as the
\* first call again
C35_Witness ==
    /\ ev = [op |-> "Skip", check |-> "Allowed"]
    /\ apiCallCount = 1
    /\ ~isRateLimited
    /\ rateLimitResetTimeout = Off
    /\ score > 0

\* C36: the countdown timer is live only in Viewing and the auto-advance
\* timer is pending only in Scored (each is a single timer), so a countdown
\* tick is delivered only in Viewing and the auto-advance fires only in
\* Scored.
C36_TimersFollowPhase ==
    [][/\ countdownTimer' # Off => Viewing'
       /\ answerTimeout'.left # Off => Scored'
       /\ ev'.op = "CountdownTick" => Viewing
       /\ ev'.op = "AutoAdvance" => Scored]_vars

\* a scored round whose auto-advance is due, its countdown timer stopped
C36_Witness ==
    /\ Scored
    /\ answerTimeout.left = 0
    /\ countdownTimer = Off
    /\ ev.op = "Advance"

\* no refusal of the limiter is in effect: no lockout is on or scheduled to
\* end, and no callback waits with a closure made during a lockout
NoDenialInEffect ==
    /\ ~isRateLimited
    /\ rateLimitResetTimeout = Off
    /\ ~answerTimeout.rl
    /\ \A l \in panoInFlight : ~l.rl

\* C37: while the limiter refuses nothing and no hint is requested, every
\* step of the rate-limited controller is a step of the unguarded controller
\* of App.tsx for the same operation, the same sampled truth, the same click
\* and the same panorama answer, on the state they share (phase flags, truth,
\* guess, countdown, distance, outcome flags, score, timers and outstanding
\* lookup); both are deterministic in these inputs, so from the same start
\* they pass through the same values.
C37_SameStepsAsUnguarded ==
    [][(NoDenialInEffect /\ ev'.check \notin {"Blocked", "Limited"})
          => /\ ev'.op = "Mount" => UnguardedMount
             /\ ev'.op = "Skip" => UnguardedSkip
             /\ ev'.op = "AutoAdvance" => UnguardedAnswerTimeoutFire
             /\ ev'.op = "ScriptLoaded" => UnguardedScriptLoaded
             /\ ev'.op = "PanoFound" => UnguardedPanoFound
             /\ ev'.op = "PanoNotFound" => UnguardedPanoNotFound
             /\ ev'.op = "CountdownTick" => UnguardedCountdownTick
             /\ ev'.op = "MapClick"
                  => \A latLng \in GuessPoints \cup {NoLatLng} : \A d \in Distances :
                       MapClickWith(latLng, d) => UnguardedHandleMapClick(latLng, d)
             /\ ev'.op = "Advance" => UnguardedAdvance]_vars

\* with no refusal in effect, a panorama lookup that found nothing has
\* restarted the round after an earlier round was scored
C37_Witness ==
    /\ NoDenialInEffect
    /\ ev = [op |-> "PanoNotFound", check |-> "Allowed"]
    /\ Viewing
    /\ score > 0
    /\ apiCallCount > 3

====
